---- MODULE Spec2Model ----
(***************************************************************************)
(* MedChain: the per-patient hash-chained ledger, the permission edges and *)
(* the record-authoring operations of src/lib/ledger.ts.                   *)
(*                                                                         *)
(* Every exported async function is a call that occupies a slot of `calls` *)
(* and advances from one awaited storage operation to the next; the code   *)
(* between two awaits runs without interruption (JavaScript run to         *)
(* completion), so one action is one storage operation together with the   *)
(* synchronous code that follows it.                                       *)
(***************************************************************************)
EXTENDS Integers, Sequences, FiniteSets, TLC

\* ------------------------------------------------------------- bounds
MaxUsers == 2       \* accounts that may be created
MaxCalls == 2       \* calls that may be in flight at once (tabs, retries)
MaxGrants == 2      \* grantAccess calls
MaxRevokes == 1     \* revokeAccess calls
MaxRecords == 1     \* records written and still to be written
MaxTime == 0        \* Date.now() yields a value in 0..MaxTime
MaxLen == 3           \* blocks in a sequence handed to verifyChain
MaxClicks == 2        \* runs of connectWallet

\* ---------------------------------------------------- values and inputs
None == 0                   \* localStorage.getItem(...) === null
NoSuchId == MaxUsers + 1    \* an id string that no stored user carries
UserIds == 1..MaxUsers
AllIds == 1..NoSuchId
Slots == 1..MaxCalls
Times == 0..MaxTime
Roles == {"patient", "doctor"}
Names == {"Ann", "Bob"}
Emails == {"a@x", "b@x"}
Passwords == {"pw1", "pw2"}
Salts == {"s1"}
GENESIS == <<"GENESIS">>
NoRef == <<"none", 0, 0>>   \* payloadRef: undefined

ErrEmail == "Email already registered"
ErrPatient == "Only the patient can add their report"
ErrDoctor == "Only the doctor can add updates"
ErrAccess == "No access to this patient"

VARIABLES
  users,        \* object store "users"
  session,      \* localStorage[SESSION_KEY]: a user id, or None
  cache,        \* localStorage[SESSION_KEY + "-cache"]: a cached user id, or None
  permissions,  \* object store "permissions"
  permCtr,      \* permission ids handed out so far (crypto.randomUUID is fresh)
  records,      \* object store "records"
  files,        \* object store "files" (ids of the stored blobs)
  blocks,       \* object store "blocks"
  calls,        \* per slot: the call in flight, or the call that last ended there
  permLast,     \* history: the last permission operation on each (patient, doctor)
  vin,          \* the block sequence a caller hands to verifyChain
  vout,         \* <<>>, or <<r>> once verifyChain(vin) has returned r
  wallet        \* the MetaMask button: its loading state and the connectWallet run

stores == <<users, session, cache, permissions, permCtr, records, files, blocks,
            calls, permLast>>
vars == <<users, session, cache, permissions, permCtr, records, files, blocks,
          calls, permLast, vin, vout, wallet>>

\* ------------------------------------------------------------- crypto
\* A collision-free digest: the digest of x is the term <<"sha256", x>>.
sha256HexFromString(s) == <<"sha256", s>>
hashPassword(password, saltHex) == sha256HexFromString(<<saltHex, password>>)

\* ----------------------------------------------------------------- db
getUserByEmail(email) == {u \in users : u.email = email}
getUserById(id) == {u \in users : u.id = id}
listBlocksByPatient(patientId) == {b \in blocks : b.patientId = patientId}
listPermissionsForDoctor(doctorId) == {p \in permissions : p.doctorId = doctorId}
listRecordsByPatient(patientId) == {r \in records : r.patientId = patientId}
\* put: insert or replace under the primary key id
putById(store, row) == {x \in store : x.id # row.id} \cup {row}
\* delete by the composite key (patientId, doctorId)
deletePermission(patientId, doctorId) ==
  {p \in permissions : ~(p.patientId = patientId /\ p.doctorId = doctorId)}

\* ------------------------------------------------------------- helpers
Max(S) == CHOOSE m \in S : \A x \in S : x <= m
Edges(patientId, doctorId) ==
  {p \in permissions : p.patientId = patientId /\ p.doctorId = doctorId}
InFlight == {s \in Slots : calls[s].pc \notin {"idle", "done"}}
\* Arguments a caller passes for an id: a stored user's id, or an id that
\* no user carries.
StoredIds == {u.id : u \in users}
ArgIds == StoredIds \cup {NoSuchId}
PatientArgs == {u.id : u \in {x \in users : x.role = "patient"}} \cup {NoSuchId}
DoctorArgs == {u.id : u \in {x \in users : x.role = "doctor"}}
\* Emails are opaque: a new account takes a stored email or the first one
\* that is not stored.
EmailArgs ==
  LET used == {u.email : u \in users}
      free == Emails \ used
  IN used \cup (IF free = {} THEN {}
                ELSE {CHOOSE e \in free : \A f \in free : e = "a@x" \/ f # "a@x"})
\* Names are opaque as well: a stored name or the first one not stored.
NameArgs ==
  LET used == {u.name : u \in users}
      free == Names \ used
  IN used \cup (IF free = {} THEN {}
                ELSE {CHOOSE n \in free : \A f \in free : n = "Ann" \/ f # "Ann"})
InFlightOp(op) == {s \in InFlight : calls[s].op = op}
Revoked == {b \in blocks : b.payloadType = "access-revoked"}

Idle ==
  [op |-> "idle", pc |-> "idle", res |-> "",
   patientId |-> None, doctorId |-> None, me |-> None,
   name |-> "", email |-> "", password |-> "", role |-> "", saltHex |-> "",
   passwordHashHex |-> hashPassword("", ""),
   hasFile |-> FALSE, fileId |-> None, recId |-> None, recType |-> "",
   payloadType |-> "", payloadRef |-> NoRef, authorId |-> None,
   index |-> 0, prevHash |-> GENESIS, authorName |-> "", timestamp |-> 0,
   sess0 |-> None, nRec0 |-> 0, nBlk0 |-> 0, nPerm0 |-> 0, nEdge0 |-> 0,
   nFile0 |-> 0, nUser0 |-> 0,
   pl0 |-> "none",
   edgeAtWrite |-> TRUE]

\* The MetaMask button before a click: not loading, no run.
NoAddr == <<>>
NoSig == <<"sig">>          \* a falsy signature
WalletIdle ==
  [pc |-> "idle", loading |-> FALSE, timer |-> "off", pending |-> "none",
   role |-> "patient", message |-> <<>>,
   address |-> NoAddr, signature |-> NoSig, signerAddr |-> NoAddr,
   called |-> <<>>, error |-> "", toast |-> "", clicks |-> 0]

Init ==
  /\ users = {}
  /\ session = None
  /\ cache = None
  /\ permissions = {}
  /\ permCtr = 0
  /\ records = {}
  /\ files = {}
  /\ blocks = {}
  /\ calls = [s \in Slots |-> Idle]
  /\ permLast = [pr \in AllIds \X AllIds |-> "none"]
  /\ vin = <<>>
  /\ vout = <<>>
  /\ wallet = WalletIdle

\* ------------------------------------------------------ call bookkeeping
\* Beside its arguments and locals a call notes what it found when it was
\* made: the session (sess0), the sizes of the stores (nRec0, nBlk0, nPerm0,
\* nFile0, nUser0),
\* the stored edges of its pair (nEdge0) and the last permission operation
\* on its pair (pl0). An ended call stays in its slot, with its outcome in
\* res, until the next call takes the slot.
\* A call starts in the lowest slot that holds no call in flight, while fewer
\* than nSlots calls are in flight.
CanStart(s, nSlots) ==
  /\ s <= nSlots
  /\ s \notin InFlight
  /\ \A t \in 1..(s - 1) : t \in InFlight

NewCall(op, patientId, doctorId) ==
  [Idle EXCEPT !.op = op, !.patientId = patientId, !.doctorId = doctorId,
               !.sess0 = session,
               !.nRec0 = Cardinality(records),
               !.nBlk0 = Cardinality(blocks),
               !.nPerm0 = Cardinality(permissions),
               !.nFile0 = Cardinality(files),
               !.nUser0 = Cardinality(users),
               !.nEdge0 = Cardinality(Edges(patientId, doctorId)),
               !.pl0 = IF <<patientId, doctorId>> \in DOMAIN permLast
                       THEN permLast[<<patientId, doctorId>>] ELSE "none"]

Throw(c, err) == [c EXCEPT !.pc = "done", !.res = err]
Return(c) == [c EXCEPT !.pc = "done", !.res = "ok"]

\* Mutant of CallAppendBlock: the operation returns without appending.
CallAppendBlockSkipped(c, patientId, payloadType, payloadRef, authorId) ==
  Return([c EXCEPT !.patientId = patientId])

\* appendBlock(opts) is entered: its first await is listBlocksByPatient.
CallAppendBlock(c, patientId, payloadType, payloadRef, authorId) ==
  [c EXCEPT !.pc = "abRead", !.patientId = patientId,
            !.payloadType = payloadType, !.payloadRef = payloadRef,
            !.authorId = authorId]

\* ------------------------------------------------------------ appendBlock
nextIndex(bs) == IF bs # {} THEN Max({b.index : b \in bs}) + 1 ELSE 0

\* blocks.find((b) => b.index === index - 1)!.hash: the first such block in
\* the order the store lists them, which is any of them when several carry
\* that index.
prevHashes(bs, index) ==
  IF index = 0 THEN {GENESIS} ELSE {b.hash : b \in {x \in bs : x.index = index - 1}}

\* Mutant of authorNameOf: no fallback for a user that is not found.
authorNameOfNoFallback(author) ==
  IF author # {} THEN (CHOOSE u \in author : TRUE).name ELSE ""

authorNameOf(author) ==
  IF author # {} THEN (CHOOSE u \in author : TRUE).name ELSE "Unknown"

\* Mutant of blockHash: the index is left out of the preimage.
blockHashNoIndex(prevHash, payloadType, payloadRef, timestamp, authorId, index) ==
  LET payloadKey == <<payloadType, payloadRef>>
      contentHash == sha256HexFromString(payloadKey)
      preimage == <<prevHash, contentHash, timestamp, authorId>>
  IN sha256HexFromString(preimage)

blockHash(prevHash, payloadType, payloadRef, timestamp, authorId, index) ==
  LET payloadKey == <<payloadType, payloadRef>>
      contentHash == sha256HexFromString(payloadKey)
      preimage == <<prevHash, contentHash, timestamp, authorId, index>>
  IN sha256HexFromString(preimage)

\* listBlocksByPatient, index, prevHash, getUserById, Date.now(). The author
\* lookup is taken with the read of the chain: a stored user never changes
\* and an id that is not stored is never handed out later, and the clock
\* is read as any value of Times.
AbRead(s) ==
  /\ calls[s].pc = "abRead"
  /\ LET c == calls[s]
         bs == listBlocksByPatient(c.patientId)
         index == nextIndex(bs)
     IN \E prevHash \in prevHashes(bs, index), timestamp \in Times :
          calls' = [calls EXCEPT ![s] =
                      [c EXCEPT !.pc = "abPut", !.index = index,
                                !.prevHash = prevHash,
                                !.authorName = authorNameOf(getUserById(c.authorId)),
                                !.timestamp = timestamp]]
  /\ UNCHANGED <<users, session, cache, permissions, permCtr, records, files,
                 blocks, permLast, vin, vout, wallet>>

\* Mutant of newBlock: the block id is derived from the chain position, so
\* that the blocks of different chains share ids.
newBlockIdFromIndex(c) ==
  [id |-> c.index + 1,
   patientId |-> c.patientId,
   index |-> c.index,
   prevHash |-> c.prevHash,
   hash |-> blockHash(c.prevHash, c.payloadType, c.payloadRef, c.timestamp,
                      c.authorId, c.index),
   timestamp |-> c.timestamp,
   payloadType |-> c.payloadType,
   payloadRef |-> c.payloadRef,
   authorId |-> c.authorId,
   authorName |-> c.authorName]

\* Mutant of newBlock: the block is filed under its author's id.
newBlockOfAuthor(c) ==
  [id |-> Cardinality(blocks) + 1,
   patientId |-> c.authorId,
   index |-> c.index,
   prevHash |-> c.prevHash,
   hash |-> blockHash(c.prevHash, c.payloadType, c.payloadRef, c.timestamp,
                      c.authorId, c.index),
   timestamp |-> c.timestamp,
   payloadType |-> c.payloadType,
   payloadRef |-> c.payloadRef,
   authorId |-> c.authorId,
   authorName |-> c.authorName]

newBlock(c) ==
  [id |-> Cardinality(blocks) + 1,
   patientId |-> c.patientId,
   index |-> c.index,
   prevHash |-> c.prevHash,
   hash |-> blockHash(c.prevHash, c.payloadType, c.payloadRef, c.timestamp,
                      c.authorId, c.index),
   timestamp |-> c.timestamp,
   payloadType |-> c.payloadType,
   payloadRef |-> c.payloadRef,
   authorId |-> c.authorId,
   authorName |-> c.authorName]

\* putBlock(block); appendBlock and the operation that called it return.
AbPut(s) ==
  /\ calls[s].pc = "abPut"
  /\ blocks' = putById(blocks, newBlock(calls[s]))
  /\ calls' = [calls EXCEPT ![s] = Return(calls[s])]
  /\ UNCHANGED <<users, session, cache, permissions, permCtr, records, files,
                 permLast, vin, vout, wallet>>

\* ---------------------------------------------------------------- auth
\* createAccount up to its first write: getUserByEmail, then the salt and
\* the password digest.
createAccount(s, nSlots, name, email, password, role, saltHex) ==
  /\ CanStart(s, nSlots)
  /\ Cardinality(users)
       + Cardinality({t \in InFlight : calls[t].pc = "putUser"}) < MaxUsers
  /\ LET c == NewCall("createAccount", None, None)
         existing == getUserByEmail(email)
     IN calls' = [calls EXCEPT ![s] =
                    IF existing # {}
                    THEN Throw([c EXCEPT !.email = email], ErrEmail)
                    ELSE [c EXCEPT !.pc = "putUser", !.name = name,
                                   !.email = email, !.role = role,
                                   !.saltHex = saltHex,
                                   !.passwordHashHex =
                                      hashPassword(password, saltHex)]]
  /\ UNCHANGED <<users, session, cache, permissions, permCtr, records, files,
                 blocks, permLast, vin, vout, wallet>>

\* putUser(user), localStorage.setItem(SESSION_KEY, user.id), and for a
\* patient the call of appendBlock for the genesis block.
PutUser(s) ==
  /\ calls[s].pc = "putUser"
  /\ LET c == calls[s]
         user == [id |-> Cardinality(users) + 1, name |-> c.name,
                  email |-> c.email, role |-> c.role, saltHex |-> c.saltHex,
                  passwordHashHex |-> c.passwordHashHex]
     IN /\ users' = putById(users, user)
        /\ session' = user.id
        /\ calls' = [calls EXCEPT ![s] =
                       IF c.role = "patient"
                       THEN CallAppendBlock(c, user.id, "genesis", NoRef, user.id)
                       ELSE Return(c)]
  /\ UNCHANGED <<cache, permissions, permCtr, records, files, blocks, permLast,
                 vin, vout, wallet>>

login(email, password) ==
  /\ \E user \in getUserByEmail(email) :
       /\ hashPassword(password, user.saltHex) = user.passwordHashHex
       /\ session' = user.id
  /\ UNCHANGED <<users, cache, permissions, permCtr, records, files, blocks,
                 calls, permLast, vin, vout, wallet>>

\* Mutant of loginCall: the password digest is not compared.
loginCallAnyPassword(s, nSlots, email, password) ==
  /\ CanStart(s, nSlots)
  /\ LET c == [NewCall("login", None, None) EXCEPT
                 !.email = email, !.password = password]
         user == getUserByEmail(email)
     IN IF user = {}
        THEN /\ calls' = [calls EXCEPT ![s] = [c EXCEPT !.pc = "done",
                                                        !.res = "false"]]
             /\ UNCHANGED session
        ELSE \E u \in user :
               /\ session' = u.id
               /\ calls' = [calls EXCEPT ![s] = [c EXCEPT !.pc = "done",
                                                          !.res = "true"]]
  /\ UNCHANGED <<users, cache, permissions, permCtr, records, files, blocks,
                 permLast, vin, vout, wallet>>

\* login as a call with its return value: false when no user has the email
\* or the digest of the password under the user's salt differs from the
\* stored one, else true with the session set.
loginCall(s, nSlots, email, password) ==
  /\ CanStart(s, nSlots)
  /\ LET c == [NewCall("login", None, None) EXCEPT
                 !.email = email, !.password = password]
         user == getUserByEmail(email)
     IN IF user = {}
        THEN /\ calls' = [calls EXCEPT ![s] = [c EXCEPT !.pc = "done",
                                                        !.res = "false"]]
             /\ UNCHANGED session
        ELSE \E u \in user :
               LET hash == hashPassword(password, u.saltHex)
               IN IF hash # u.passwordHashHex
                  THEN /\ calls' = [calls EXCEPT ![s] =
                                      [c EXCEPT !.pc = "done", !.res = "false"]]
                       /\ UNCHANGED session
                  ELSE /\ session' = u.id
                       /\ calls' = [calls EXCEPT ![s] =
                                      [c EXCEPT !.pc = "done", !.res = "true"]]
  /\ UNCHANGED <<users, cache, permissions, permCtr, records, files, blocks,
                 permLast, vin, vout, wallet>>

logout ==
  /\ session' = None
  /\ cache' = None
  /\ UNCHANGED <<users, permissions, permCtr, records, files, blocks, calls,
                 permLast, vin, vout, wallet>>

\* getSessionUserHydrated(): the stored user of the session id (none when
\* there is no session), cached under SESSION_KEY-cache when found.
sessionUser == IF session = None THEN {} ELSE getUserById(session)
cacheAfterHydrate == IF sessionUser # {} THEN session ELSE cache

\* getSessionUserHydrated() called on its own (the dashboard's fetcher).
getSessionUserHydrated ==
  /\ cache' = cacheAfterHydrate
  /\ UNCHANGED <<users, session, permissions, permCtr, records, files, blocks,
                 calls, permLast, vin, vout, wallet>>

\* getCurrentUser(): the id of the user it returns, None for null. With a
\* session id it returns the cached user if there is one, else a stub that
\* carries the session id.
getCurrentUser ==
  IF session = None THEN None
  ELSE IF cache # None THEN cache
  ELSE session

\* ---------------------------------------------------------- permissions
\* putPermission(perm), then the call of appendBlock.
grantAccess(s, nSlots, patientId, doctorId) ==
  /\ CanStart(s, nSlots)
  /\ permCtr < MaxGrants
  /\ LET c == NewCall("grantAccess", patientId, doctorId)
         perm == [id |-> permCtr + 1, patientId |-> patientId,
                  doctorId |-> doctorId]
     IN /\ permissions' = putById(permissions, perm)
        /\ permCtr' = permCtr + 1
        /\ calls' = [calls EXCEPT ![s] =
                       CallAppendBlock(c, patientId, "access-granted",
                                       <<"perm", perm.id, 0>>, patientId)]
  /\ permLast' = [permLast EXCEPT ![<<patientId, doctorId>>] = "grant"]
  /\ UNCHANGED <<users, session, cache, records, files, blocks, vin, vout, wallet>>

\* Mutant of revokeAccess: when no edge is stored the call returns at once,
\* without a block.
revokeAccessOnlyIfEdge(s, nSlots, patientId, doctorId) ==
  /\ CanStart(s, nSlots)
  /\ Cardinality(Revoked) + Cardinality(InFlightOp("revokeAccess")) < MaxRevokes
  /\ permissions' = deletePermission(patientId, doctorId)
  /\ calls' = [calls EXCEPT ![s] =
                 IF Edges(patientId, doctorId) = {}
                 THEN Return(NewCall("revokeAccess", patientId, doctorId))
                 ELSE CallAppendBlock(NewCall("revokeAccess", patientId, doctorId),
                                      patientId, "access-revoked",
                                      <<"pair", patientId, doctorId>>, patientId)]
  /\ permLast' = [permLast EXCEPT ![<<patientId, doctorId>>] = "revoke"]
  /\ UNCHANGED <<users, session, cache, permCtr, records, files, blocks,
                 vin, vout, wallet>>

\* deletePermission(patientId, doctorId), then the call of appendBlock.
revokeAccess(s, nSlots, patientId, doctorId) ==
  /\ CanStart(s, nSlots)
  /\ Cardinality(Revoked) + Cardinality(InFlightOp("revokeAccess")) < MaxRevokes
  /\ permissions' = deletePermission(patientId, doctorId)
  /\ calls' = [calls EXCEPT ![s] =
                 CallAppendBlock(NewCall("revokeAccess", patientId, doctorId),
                                 patientId, "access-revoked",
                                 <<"pair", patientId, doctorId>>, patientId)]
  /\ permLast' = [permLast EXCEPT ![<<patientId, doctorId>>] = "revoke"]
  /\ UNCHANGED <<users, session, cache, permCtr, records, files, blocks,
                 vin, vout, wallet>>

\* -------------------------------------------------------------- records
\* Mutant of reportForbidden: the role of the session user is not looked at.
reportForbiddenAnyRole(me, patientId) ==
  me = {} \/ \E u \in me : u.id # patientId

\* if (!me || me.id !== patientId || me.role !== "patient") throw
reportForbidden(me, patientId) ==
  me = {} \/ \E u \in me : u.id # patientId \/ u.role # "patient"

\* addReport up to its first write: the session user and the identity check.
addReport(s, nSlots, patientId, hasFile) ==
  /\ CanStart(s, nSlots)
  /\ Cardinality(records) + Cardinality(InFlightOp("addReport"))
       + Cardinality(InFlightOp("addDoctorUpdate")) < MaxRecords
  /\ hasFile => Cardinality(files) < MaxRecords
  /\ cache' = cacheAfterHydrate
  /\ LET c == NewCall("addReport", patientId, None)
         me == sessionUser
     IN calls' = [calls EXCEPT ![s] =
          IF reportForbidden(me, patientId)
          THEN Throw(c, ErrPatient)
          ELSE [c EXCEPT !.pc = IF hasFile THEN "putFile" ELSE "putRecord",
                         !.me = session, !.hasFile = hasFile,
                         !.recType = "report",
                         !.authorName = authorNameOf(me)]]
  /\ UNCHANGED <<users, session, permissions, permCtr, records, files, blocks,
                 permLast, vin, vout, wallet>>

\* Mutant of PutFile: the file id is taken but the blob is not stored.
PutFileSkipped(s) ==
  /\ calls[s].pc = "putFile"
  /\ LET fileId == Cardinality(files) + 1
     IN /\ files' = files
        /\ calls' = [calls EXCEPT ![s] =
                       [calls[s] EXCEPT !.pc = "putRecord", !.fileId = fileId]]
  /\ UNCHANGED <<users, session, cache, permissions, permCtr, records, blocks,
                 permLast, vin, vout, wallet>>

\* putFile(fileId, opts.file)
PutFile(s) ==
  /\ calls[s].pc = "putFile"
  /\ LET fileId == Cardinality(files) + 1
     IN /\ files' = files \cup {fileId}
        /\ calls' = [calls EXCEPT ![s] =
                       [calls[s] EXCEPT !.pc = "putRecord", !.fileId = fileId]]
  /\ UNCHANGED <<users, session, cache, permissions, permCtr, records, blocks,
                 permLast, vin, vout, wallet>>

\* Mutant of newRecord: every record is written with type "report".
newRecordAsReport(c) ==
  [id |-> Cardinality(records) + 1,
   patientId |-> c.patientId,
   authorId |-> c.me,
   authorName |-> c.authorName,
   type |-> "report",
   fileId |-> c.fileId]

\* const rec: RecordItem = {...}; title and createdAt are read by no
\* operation of the ledger and are left out.
newRecord(c) ==
  [id |-> Cardinality(records) + 1,
   patientId |-> c.patientId,
   authorId |-> c.me,
   authorName |-> c.authorName,
   type |-> c.recType,
   fileId |-> c.fileId]

\* putRecord(rec), then the call of appendBlock; shared by addReport and
\* addDoctorUpdate. edgeAtWrite notes whether the store holds an edge
\* (patientId, author) at this write.
PutRecord(s) ==
  /\ calls[s].pc = "putRecord"
  /\ LET c == calls[s]
         rec == newRecord(c)
     IN /\ records' = putById(records, rec)
        /\ calls' = [calls EXCEPT ![s] =
                       CallAppendBlock(
                         [c EXCEPT !.recId = rec.id,
                                   !.edgeAtWrite = Edges(c.patientId, c.me) # {}],
                         c.patientId, c.recType, <<"rec", rec.id, 0>>, c.me)]
  /\ UNCHANGED <<users, session, cache, permissions, permCtr, files, blocks,
                 permLast, vin, vout, wallet>>

\* Mutant of updateForbidden: me.id is not compared with doctorId.
updateForbiddenAnyDoctor(me, doctorId) ==
  me = {} \/ \E u \in me : u.role # "doctor"

\* if (!me || me.id !== doctorId || me.role !== "doctor") throw
updateForbidden(me, doctorId) ==
  me = {} \/ \E u \in me : u.id # doctorId \/ u.role # "doctor"

\* addDoctorUpdate up to the permission check: the session user and the
\* identity check.
addDoctorUpdate(s, nSlots, doctorId, patientId) ==
  /\ CanStart(s, nSlots)
  /\ Cardinality(records) + Cardinality(InFlightOp("addReport"))
       + Cardinality(InFlightOp("addDoctorUpdate")) < MaxRecords
  /\ cache' = cacheAfterHydrate
  /\ LET c == NewCall("addDoctorUpdate", patientId, doctorId)
         me == sessionUser
     IN calls' = [calls EXCEPT ![s] =
          IF updateForbidden(me, doctorId)
          THEN Throw(c, ErrDoctor)
          ELSE [c EXCEPT !.pc = "checkPermission", !.me = session,
                         !.recType = "update",
                         !.authorName = authorNameOf(me)]]
  /\ UNCHANGED <<users, session, permissions, permCtr, records, files, blocks,
                 permLast, vin, vout, wallet>>

\* Mutant of allowed: perms.length > 0, the patient not compared.
allowedAny(perms, patientId) == perms # {}

\* perms.some((p) => p.patientId === patientId)
allowed(perms, patientId) == \E p \in perms : p.patientId = patientId

\* listPermissionsForDoctor(doctorId) and the check of `allowed`.
CheckPermission(s) ==
  /\ calls[s].pc = "checkPermission"
  /\ LET c == calls[s]
         perms == listPermissionsForDoctor(c.doctorId)
     IN calls' = [calls EXCEPT ![s] =
                    IF ~allowed(perms, c.patientId) THEN Throw(c, ErrAccess)
                    ELSE [c EXCEPT !.pc = "putRecord"]]
  /\ UNCHANGED <<users, session, cache, permissions, permCtr, records, files,
                 blocks, permLast, vin, vout, wallet>>

\* Mutant of getPatientHistory: the records of every patient are listed.
getPatientHistoryOfAll(patientId) == records

getPatientHistory(patientId) == listRecordsByPatient(patientId)

\* --------------------------------------------------------------- ledger
\* Mutant of verifyLoop: the first block fails only when both its
\* payloadType and its prevHash are wrong (&& for ||).
RECURSIVE verifyLoopBothWrong(_, _, _)
verifyLoopBothWrong(bs, i, failures) ==
  IF i > Len(bs) THEN failures
  ELSE LET b == bs[i]
           found ==
             IF i = 1
             THEN IF b.payloadType # "genesis" /\ b.prevHash # GENESIS
                  THEN <<[index |-> b.index, reason |-> "Invalid genesis"]>>
                  ELSE <<>>
             ELSE IF b.prevHash # bs[i - 1].hash
                  THEN <<[index |-> b.index, reason |-> "Prev hash mismatch"]>>
                  ELSE <<>>
       IN verifyLoopBothWrong(bs, i + 1, failures \o found)

\* Mutant of verifyLoop: the loop ends at the first failure it finds.
RECURSIVE verifyLoopFirstOnly(_, _, _)
verifyLoopFirstOnly(bs, i, failures) ==
  IF i > Len(bs) \/ failures # <<>> THEN failures
  ELSE LET b == bs[i]
           found ==
             IF i = 1
             THEN IF b.payloadType # "genesis" \/ b.prevHash # GENESIS
                  THEN <<[index |-> b.index, reason |-> "Invalid genesis"]>>
                  ELSE <<>>
             ELSE IF b.prevHash # bs[i - 1].hash
                  THEN <<[index |-> b.index, reason |-> "Prev hash mismatch"]>>
                  ELSE <<>>
       IN verifyLoopFirstOnly(bs, i + 1, failures \o found)

RECURSIVE verifyLoop(_, _, _)
verifyLoop(bs, i, failures) ==
  IF i > Len(bs) THEN failures
  ELSE LET b == bs[i]
           found ==
             IF i = 1
             THEN IF b.payloadType # "genesis" \/ b.prevHash # GENESIS
                  THEN <<[index |-> b.index, reason |-> "Invalid genesis"]>>
                  ELSE <<>>
             ELSE IF b.prevHash # bs[i - 1].hash
                  THEN <<[index |-> b.index, reason |-> "Prev hash mismatch"]>>
                  ELSE <<>>
       IN verifyLoop(bs, i + 1, failures \o found)

\* Mutant of verifyChain: ok is set before the loop has run.
verifyChainOkFirst(bs) ==
  LET failures == verifyLoop(bs, 1, <<>>)
  IN [ok |-> Len(<<>>) = 0, failures |-> failures]

verifyChain(bs) ==
  LET failures == verifyLoop(bs, 1, <<>>)
  IN [ok |-> Len(failures) = 0, failures |-> failures]

\* The blocks of a chain in index order, as getLedger hands them to
\* verifyChain.
RECURSIVE InIndexOrder(_)
InIndexOrder(bs) ==
  IF bs = {} THEN <<>>
  ELSE LET b == CHOOSE x \in bs : \A y \in bs : x.index <= y.index
       IN <<b>> \o InIndexOrder(bs \ {b})

getLedger(patientId) == InIndexOrder(listBlocksByPatient(patientId))

\* ------------------------------------------------------- specifications
AccountOps(nSlots) ==
  \/ \E s \in Slots, name \in NameArgs, email \in EmailArgs, role \in Roles,
        saltHex \in Salts :
       createAccount(s, nSlots, name, email, "pw1", role, saltHex)
  \/ \E s \in Slots : PutUser(s)
  \/ \E email \in Emails, password \in Passwords : login(email, password)
  \/ logout

LedgerOps(nSlots) ==
  \/ \E s \in Slots, patientId \in PatientArgs, doctorId \in DoctorArgs :
       grantAccess(s, nSlots, patientId, doctorId)
  \/ \E s \in Slots, patientId \in PatientArgs, doctorId \in DoctorArgs :
       revokeAccess(s, nSlots, patientId, doctorId)
  \/ \E s \in Slots, patientId \in ArgIds, hasFile \in BOOLEAN :
       addReport(s, nSlots, patientId, hasFile)
  \/ \E s \in Slots : PutFile(s)
  \/ \E s \in Slots : PutRecord(s)
  \/ \E s \in Slots, doctorId \in ArgIds, patientId \in PatientArgs :
       addDoctorUpdate(s, nSlots, doctorId, patientId)
  \/ \E s \in Slots : CheckPermission(s)
  \/ \E s \in Slots : AbRead(s)
  \/ \E s \in Slots : AbPut(s)

\* From the empty store, every operation, the calls one after another: a
\* call starts when none is in flight.
Next == AccountOps(1) \/ LedgerOps(1)
Spec == Init /\ [][Next]_vars

\* The store after a patient and a doctor have signed up (createAccount
\* twice, from Init), with any of the sessions that login and logout leave.
\* From there the ledger operations overlap: up to MaxCalls calls are in
\* flight and their steps interleave.
InitRegistered ==
  LET patient == [id |-> 1, name |-> "Ann", email |-> "a@x", role |-> "patient",
                  saltHex |-> "s1", passwordHashHex |-> hashPassword("pw1", "s1")]
      doctor == [id |-> 2, name |-> "Bob", email |-> "b@x", role |-> "doctor",
                 saltHex |-> "s1", passwordHashHex |-> hashPassword("pw1", "s1")]
      genesis == [id |-> 1, patientId |-> 1, index |-> 0, prevHash |-> GENESIS,
                  hash |-> blockHash(GENESIS, "genesis", NoRef, 0, 1, 0),
                  timestamp |-> 0, payloadType |-> "genesis",
                  payloadRef |-> NoRef, authorId |-> 1, authorName |-> "Ann"]
  IN /\ users = {patient, doctor}
     /\ session \in {None, patient.id, doctor.id}
     /\ cache = None
     /\ permissions = {}
     /\ permCtr = 0
     /\ records = {}
     /\ files = {}
     /\ blocks = {genesis}
     /\ calls = [s \in Slots |-> Idle]
     /\ permLast = [pr \in AllIds \X AllIds |-> "none"]
     /\ vin = <<>>
     /\ vout = <<>>
     /\ wallet = WalletIdle

NextConc == LedgerOps(MaxCalls)
SpecConc == InitRegistered /\ [][NextConc]_vars

\* Sign-up, login, logout and the session lookups, one after another.
SessionOps ==
  \/ \E s \in Slots, name \in NameArgs, email \in EmailArgs, role \in Roles,
        saltHex \in Salts :
       createAccount(s, 1, name, email, "pw1", role, saltHex)
  \/ \E s \in Slots : PutUser(s)
  \/ \E s \in Slots : AbRead(s)
  \/ \E s \in Slots : AbPut(s)
  \/ \E s \in Slots, email \in Emails, password \in Passwords :
       loginCall(s, 1, email, password)
  \/ logout
  \/ getSessionUserHydrated

NextSession == SessionOps
SpecSession == Init /\ [][NextSession]_vars

\* An awaited storage operation rejects (quota, an aborted transaction, a
\* closed database): nothing is written, and as ledger.ts has no try/catch
\* the rejection ends the call that awaited it.
ErrStorage == "StorageError"
StorageError(s) ==
  /\ s \in InFlight
  /\ calls' = [calls EXCEPT ![s] = Throw(calls[s], ErrStorage)]
  /\ UNCHANGED <<users, session, cache, permissions, permCtr, records, files,
                 blocks, permLast, vin, vout, wallet>>

\* The ledger operations on the registered store, the calls one after
\* another, over a store whose operations may fail.
NextStorage ==
  \/ LedgerOps(1)
  \/ \E s \in Slots : StorageError(s)
SpecStorage == InitRegistered /\ [][NextStorage]_vars

\* createAccount calls that overlap: up to MaxCalls sign-ups are in flight
\* (two tabs, a double submit) and their lookups and writes interleave.
SignupOps(nSlots) ==
  \/ \E s \in Slots, name \in NameArgs, email \in EmailArgs, role \in Roles,
        saltHex \in Salts :
       createAccount(s, nSlots, name, email, "pw1", role, saltHex)
  \/ \E s \in Slots : PutUser(s)
  \/ \E s \in Slots : AbRead(s)
  \/ \E s \in Slots : AbPut(s)
  \/ logout

NextSignup == SignupOps(MaxCalls)
SpecSignup == Init /\ [][NextSignup]_vars

\* verifyChain as a function of its argument: any sequence of up to MaxLen
\* blocks, in any order and with repeats. Of a block verifyChain reads
\* index, prevHash, hash and payloadType; the other fields are left out.
VerifyHashes == {sha256HexFromString(1), sha256HexFromString(2)}
VerifyBlocks ==
  [index : 0..1,
   prevHash : {GENESIS, sha256HexFromString(1)},
   hash : VerifyHashes,
   payloadType : {"genesis", "update"}]
VerifyInputs == UNION {[1..n -> VerifyBlocks] : n \in 0..MaxLen}

InitVerify ==
  /\ users = {}
  /\ session = None
  /\ cache = None
  /\ permissions = {}
  /\ permCtr = 0
  /\ records = {}
  /\ files = {}
  /\ blocks = {}
  /\ calls = [s \in Slots |-> Idle]
  /\ permLast = [pr \in AllIds \X AllIds |-> "none"]
  /\ vin \in VerifyInputs
  /\ vout = <<>>
  /\ wallet = WalletIdle

Verify ==
  /\ vout = <<>>
  /\ vout' = <<verifyChain(vin)>>
  /\ UNCHANGED <<stores, vin, wallet>>

NextVerify == Verify
SpecVerify == InitVerify /\ [][NextVerify]_vars

\* ------------------------------------------------------- connectWallet
\* src/components/metamask-auth.tsx. An address is its sequence of
\* characters; toLowerCase maps each character.
toLowerCaseChar(ch) ==
  CASE ch = "A" -> "a"
    [] ch = "B" -> "b"
    [] OTHER -> ch
toLowerCase(str) == [i \in DOMAIN str |-> toLowerCaseChar(str[i])]

\* The accounts a wallet may return and the addresses a signature may
\* recover to: one account in three spellings, and another account.
WalletAddrs == {<<"a", "b">>, <<"A", "b">>, <<"A", "B">>, <<"c", "d">>}
\* The message to sign names the role (the timestamp is Date.now()).
messageOf(role) == <<"authenticate with MedChain as", role, 0>>
\* A signature is made by the holder of an address over a message; NoSig is
\* the empty answer. Recovery yields the signer for the message that was
\* signed, and an unrelated address for any other message.
Signatures ==
  {NoSig} \cup {<<"sig", a, messageOf(r)>> : a \in WalletAddrs, r \in Roles}
UnrelatedAddr == <<"e", "f">>
verifyMessage(message, signature) ==
  IF signature[3] = message THEN signature[2] ELSE UnrelatedAddr

\* Mutant of addressMatches: any recovered address is accepted.
addressMatchesAny(signerAddr, address) == signerAddr # NoAddr

\* signerAddr.toLowerCase() === address.toLowerCase()
addressMatches(signerAddr, address) ==
  toLowerCase(signerAddr) = toLowerCase(address)

\* A return inside try, or the outer catch: in each case loading is reset
\* (setLoading(false) before the return, or the finally block).
WalletReturn(w, toast) ==
  [w EXCEPT !.pc = "done", !.loading = FALSE, !.pending = "none",
            !.toast = toast]
WalletCatch(w, error) ==
  [w EXCEPT !.pc = "done", !.loading = FALSE, !.pending = "none",
            !.error = error, !.toast = "Connection failed"]
ErrTimeout == "Connection timeout"

WalletUnchanged ==
  UNCHANGED <<stores, vin, vout>>

\* A click on the button, which is disabled while loading: setLoading(true),
\* the check of window.ethereum, the 30 s timer and the 100 ms wait.
connectWallet(role, hasEthereum) ==
  /\ wallet.pc \in {"idle", "done"}
  /\ ~wallet.loading
  /\ wallet.clicks < MaxClicks
  /\ LET w == [WalletIdle EXCEPT !.role = role, !.error = wallet.error,
                                 !.called = wallet.called,
                                 !.clicks = wallet.clicks + 1]
     IN wallet' = IF ~hasEthereum
                  THEN WalletReturn(w, "MetaMask not found")
                  ELSE [w EXCEPT !.pc = "wait", !.loading = TRUE,
                                 !.timer = "armed"]
  /\ WalletUnchanged

\* The 100 ms wait is over: detectEthereumProvider() is raced with the timer.
Wait100 ==
  /\ wallet.pc = "wait"
  /\ wallet' = [wallet EXCEPT !.pc = "detect", !.pending = "open"]
  /\ WalletUnchanged

\* The wallet will not answer the request that is awaited.
NeverAnswers ==
  /\ wallet.pending = "open"
  /\ wallet' = [wallet EXCEPT !.pending = "never"]
  /\ WalletUnchanged

\* The 30 s timer fires and rejects timeoutPromise. A Promise.race that
\* holds it (detect, accounts, sign) rejects; the await of the network
\* switch does not hold it and goes on waiting.
TimerFires ==
  /\ wallet.timer = "armed"
  /\ wallet.pc \in {"detect", "switch", "accounts", "sign"}
  /\ LET w == [wallet EXCEPT !.timer = "fired"]
     IN wallet' =
          CASE wallet.pc = "detect" ->
                 WalletCatch(w, "MetaMask connection timed out. Please try again.")
            [] wallet.pc = "accounts" -> WalletCatch(w, ErrTimeout)
            [] wallet.pc = "sign" ->
                 WalletCatch([w EXCEPT !.toast = "Signature timeout"], ErrTimeout)
            [] OTHER -> w
  /\ WalletUnchanged

\* detectEthereumProvider() resolves: with MetaMask, with another provider
\* or with null.
DetectAnswers(provider) ==
  /\ wallet.pc = "detect" /\ wallet.pending = "open"
  /\ wallet' = IF provider # "metamask"
               THEN WalletReturn(wallet, "MetaMask not detected")
               ELSE [wallet EXCEPT !.pc = "switch", !.pending = "open"]
  /\ WalletUnchanged

\* wallet_switchEthereumChain settles: resolved, rejected with code 4902 or
\* 4001, or rejected with another error. After it the account request is
\* raced with the timer, which rejects at once if the timer has fired.
SwitchAnswers(answer) ==
  /\ wallet.pc = "switch" /\ wallet.pending = "open"
  /\ wallet' =
       CASE answer = "4902" -> WalletReturn(wallet, "Network not found")
         [] answer = "4001" -> WalletReturn(wallet, "Network switch rejected")
         [] answer = "error" -> WalletCatch(wallet, "switch failed")
         [] OTHER ->
              IF wallet.timer = "fired" THEN WalletCatch(wallet, ErrTimeout)
              ELSE [wallet EXCEPT !.pc = "accounts", !.pending = "open"]
  /\ WalletUnchanged

\* eth_requestAccounts settles: with accounts (accounts[0] is the address),
\* with an empty list, or rejected. Then personal_sign is requested.
AccountsAnswer(rejected, accounts) ==
  /\ wallet.pc = "accounts" /\ wallet.pending = "open"
  /\ wallet' =
       CASE rejected -> WalletCatch(wallet, "User rejected")
         [] accounts = <<>> ->
              WalletCatch(wallet, "No accounts found. Please make sure your wallet is unlocked.")
         [] OTHER -> [wallet EXCEPT !.pc = "sign", !.pending = "open",
                                    !.address = accounts[1],
                                    !.message = messageOf(wallet.role)]
  /\ WalletUnchanged

\* personal_sign settles: rejected with code 4001, or resolved with a
\* signature, which is checked and, when it matches, reported by onSuccess.
SignAnswers(rejected, signature) ==
  /\ wallet.pc = "sign" /\ wallet.pending = "open"
  /\ wallet' =
       IF rejected
       THEN WalletCatch([wallet EXCEPT !.toast = "Signature declined"],
                        "User denied message signature")
       ELSE IF signature = NoSig
       THEN WalletCatch([wallet EXCEPT !.toast = "Signature error"],
                        "Failed to sign message")
       ELSE LET signerAddr == verifyMessage(wallet.message, signature)
                w == [wallet EXCEPT !.signature = signature,
                                    !.signerAddr = signerAddr]
            IN IF ~addressMatches(signerAddr, wallet.address)
               THEN WalletCatch([w EXCEPT !.toast = "Signature error"],
                                "Signature verification failed")
               ELSE WalletReturn(
                      [w EXCEPT !.called = Append(wallet.called, wallet.address)],
                      "")
  /\ WalletUnchanged

NextWallet ==
  \/ \E role \in Roles, hasEthereum \in BOOLEAN :
       connectWallet(role, hasEthereum)
  \/ Wait100
  \/ NeverAnswers
  \/ TimerFires
  \/ \E provider \in {"metamask", "other", "null"} : DetectAnswers(provider)
  \/ \E answer \in {"ok", "4902", "4001", "error"} : SwitchAnswers(answer)
  \/ \E rejected \in BOOLEAN,
          accounts \in {<<>>} \cup {<<a>> : a \in WalletAddrs} :
       AccountsAnswer(rejected, accounts)
  \/ \E rejected \in BOOLEAN, signature \in Signatures :
       SignAnswers(rejected, signature)
SpecWallet == Init /\ [][NextWallet]_vars

\* ---------------------------------------------------------------- claims
Quiet == InFlight = {}
Chain(patientId) == listBlocksByPatient(patientId)
HasGenesis(patientId) == \E b \in Chain(patientId) : b.payloadType = "genesis"
StoredPatients == {u.id : u \in {x \in users : x.role = "patient"}}

\* C1: once the overlapping appendBlock calls on a chain that has its
\* genesis block have all ended, the chain's index values are exactly
\* 0..N for its N+1 blocks: no duplicate and no missing index.
C1_GaplessIndices ==
  Quiet => \A patientId \in AllIds :
             HasGenesis(patientId) =>
               /\ {b.index : b \in Chain(patientId)}
                    = 0..(Cardinality(Chain(patientId)) - 1)
               /\ \A b, c \in Chain(patientId) : b.index = c.index => b = c

\* C2: once the overlapping appendBlock calls on a chain have all ended,
\* every block with index i > 0 carries the hash of the one block with index
\* i - 1 as its prevHash, and no two blocks carry the same prevHash.
C2_PrevHashLinks ==
  Quiet => \A patientId \in AllIds :
             HasGenesis(patientId) =>
               /\ \A b \in Chain(patientId) :
                    b.index > 0 =>
                      /\ Cardinality({c \in Chain(patientId) :
                                        c.index = b.index - 1}) = 1
                      /\ \A c \in Chain(patientId) :
                           c.index = b.index - 1 => b.prevHash = c.hash
               /\ \A b, c \in Chain(patientId) :
                    b.prevHash = c.prevHash => b = c

\* C3: every chain built by appendBlock calls that ran one after another
\* verifies: verifyChain of its blocks in index order returns ok = TRUE and
\* no failures.
C3_AppendedChainsVerify ==
  Quiet => \A patientId \in AllIds :
             Chain(patientId) # {} =>
               verifyChain(getLedger(patientId)) = [ok |-> TRUE, failures |-> <<>>]

\* C4: every patientId that has a block has exactly one block with index 0,
\* and that block has payloadType genesis and prevHash GENESIS.
C4_OneGenesisPerChain ==
  \A patientId \in AllIds :
    Chain(patientId) # {} =>
      /\ Cardinality({b \in Chain(patientId) : b.index = 0}) = 1
      /\ \A b \in Chain(patientId) :
           b.index = 0 => b.payloadType = "genesis" /\ b.prevHash = GENESIS

\* C5: grantAccess and revokeAccess made while the session user is not
\* patientId fail and leave the permission store and every chain unchanged.
C5_OnlyOwnerGrantsOrRevokes ==
  \A s \in Slots :
    LET c == calls[s]
    IN (c.op \in {"grantAccess", "revokeAccess"} /\ c.sess0 # c.patientId) =>
         /\ c.pc = "done"
         /\ c.res # "ok"
         /\ Cardinality(permissions) = c.nPerm0
         /\ Cardinality(blocks) = c.nBlk0

\* C6: an addDoctorUpdate(D, P, note) made when the last permission
\* operation on (P, D) was a revokeAccess that has ended, after any number
\* of grants, never gets past the permission check: it fails, with the
\* no-access error when D is the logged-in doctor, and stores no record
\* and no block.
C6_RevokedDoctorDenied ==
  \A s \in Slots :
    LET c == calls[s]
    IN (c.op = "addDoctorUpdate" /\ c.pl0 = "revoke") =>
         /\ c.pc \in {"checkPermission", "done"}
         /\ c.pc = "done" =>
              /\ c.res = IF c.me = None THEN ErrDoctor ELSE ErrAccess
              /\ Cardinality(records) = c.nRec0
              /\ Cardinality(blocks) = c.nBlk0

\* The logged-in doctor was denied after two grants of the pair and one
\* revoke.
C6_Witness ==
  LET c == calls[1]
  IN /\ c.op = "addDoctorUpdate" /\ c.pc = "done" /\ c.pl0 = "revoke"
     /\ c.me = c.doctorId /\ c.res = ErrAccess
     /\ c.patientId \in StoredPatients
     /\ DoctorArgs = {c.doctorId}
     /\ Cardinality({b \in Chain(c.patientId) :
                       b.payloadType = "access-granted"}) = 2

\* C7: for the logged-in doctor D, addDoctorUpdate(D, P, note) fails with
\* the no-access error while no edge (P, D) is stored; made when the last
\* permission operation on (P, D) was a grantAccess that has ended, it
\* succeeds, storing one update record and appending one update block with
\* authorId = D to P's chain.
C7_UpdateNeedsEdge ==
  \A s \in Slots :
    LET c == calls[s]
        ref == <<"rec", c.recId, 0>>
    IN (c.op = "addDoctorUpdate" /\ c.me # None) =>
         /\ c.nEdge0 = 0 =>
              /\ c.pc \in {"checkPermission", "done"}
              /\ c.pc = "done" => c.res = ErrAccess
         /\ (c.pl0 = "grant" /\ c.pc = "done") =>
              /\ c.res = "ok"
              /\ Cardinality(records) = c.nRec0 + 1
              /\ \E r \in records :
                   /\ r.id = c.recId /\ r.type = "update"
                   /\ r.patientId = c.patientId /\ r.authorId = c.doctorId
              /\ Cardinality(blocks) = c.nBlk0 + 1
              /\ Cardinality({b \in Chain(c.patientId) :
                                /\ b.payloadType = "update"
                                /\ b.payloadRef = ref
                                /\ b.authorId = c.doctorId}) = 1

\* The doctor's update right after the patient's grant went through.
C7_Witness ==
  LET c == calls[1]
  IN /\ c.op = "addDoctorUpdate" /\ c.pc = "done" /\ c.res = "ok"
     /\ c.pl0 = "grant" /\ c.me = c.doctorId
     /\ c.patientId \in StoredPatients
     /\ \E b \in Chain(c.patientId) :
          b.payloadType = "update" /\ b.authorId = c.doctorId

\* C8: the permission store holds at most one edge for any
\* (patientId, doctorId) pair.
C8_OneEdgePerPair ==
  \A p, q \in permissions :
    (p.patientId = q.patientId /\ p.doctorId = q.doctorId) => p = q

\* C9: whenever addDoctorUpdate has written its update record, an edge
\* (patientId, doctorId) was in the store at that write and the author's
\* stored role is doctor.
C9_EdgeAtUpdateWrite ==
  \A s \in Slots :
    LET c == calls[s]
    IN (c.op = "addDoctorUpdate" /\ c.recId # None) =>
         /\ c.edgeAtWrite
         /\ \A u \in getUserById(c.me) : u.role = "doctor"

\* C10: on a chain that verifies, a changed stored hash of any one block
\* makes verification report a failure with that block's index.
tamperHash(bs, i) ==
  [bs EXCEPT ![i].hash = sha256HexFromString(<<"tampered", @>>)]

C10_TamperedHashReported ==
  \A patientId \in AllIds :
    LET bs == getLedger(patientId)
    IN verifyChain(bs).ok =>
         \A i \in 1..Len(bs) :
           LET failures == verifyChain(tamperHash(bs, i)).failures
           IN \E k \in 1..Len(failures) : failures[k].index = bs[i].index

\* The role of the user a call found in the session when it was made; a
\* stored user never changes.
RoleOf(id) == {u.role : u \in getUserById(id)}

\* C11: an addReport(patientId, ...) made while the session is empty, the
\* session user is not patientId or that user's role is not patient throws
\* and stores no file, no record and no block; any other addReport does not
\* throw, and the record it stores has type report and authorId = patientId.
C11_ReportOnlyByPatient ==
  \A s \in Slots :
    LET c == calls[s]
        forbidden == \/ c.sess0 = None
                     \/ c.sess0 # c.patientId
                     \/ RoleOf(c.sess0) # {"patient"}
    IN c.op = "addReport" =>
         /\ forbidden =>
              /\ c.pc = "done" /\ c.res = ErrPatient
              /\ Cardinality(files) = c.nFile0
              /\ Cardinality(records) = c.nRec0
              /\ Cardinality(blocks) = c.nBlk0
         /\ ~forbidden =>
              /\ c.pc = "done" => c.res = "ok"
              /\ c.recId # None =>
                   \E r \in records :
                     /\ r.id = c.recId /\ r.type = "report"
                     /\ r.authorId = c.patientId /\ r.patientId = c.patientId

\* A logged-in doctor named their own id as patientId and was refused.
C11_Witness ==
  LET c == calls[1]
  IN /\ c.op = "addReport" /\ c.pc = "done" /\ c.res = ErrPatient
     /\ c.sess0 = c.patientId
     /\ RoleOf(c.sess0) = {"doctor"}

\* C12: an addDoctorUpdate(doctorId, patientId, note) made while the session
\* is empty, the session user is not doctorId or that user's role is not
\* doctor fails with the only-the-doctor error without reaching the
\* permission check, and writes no record and no block, whether or not an
\* edge (patientId, doctorId) is stored.
C12_UpdateOnlyByDoctor ==
  \A s \in Slots :
    LET c == calls[s]
        forbidden == \/ c.sess0 = None
                     \/ c.sess0 # c.doctorId
                     \/ RoleOf(c.sess0) # {"doctor"}
    IN (c.op = "addDoctorUpdate" /\ forbidden) =>
         /\ c.pc = "done" /\ c.res = ErrDoctor
         /\ c.recId = None
         /\ Cardinality(records) = c.nRec0
         /\ Cardinality(blocks) = c.nBlk0

\* The patient, logged in, named a doctor who holds an edge and was refused.
C12_Witness ==
  LET c == calls[1]
  IN /\ c.op = "addDoctorUpdate" /\ c.pc = "done" /\ c.res = ErrDoctor
     /\ c.nEdge0 > 0
     /\ c.sess0 = c.patientId

\* The payloadType of the block each operation appends.
BlockTypeOf(c) ==
  CASE c.op = "createAccount" -> "genesis"
    [] c.op = "addReport" -> "report"
    [] c.op = "addDoctorUpdate" -> "update"
    [] c.op = "grantAccess" -> "access-granted"
    [] c.op = "revokeAccess" -> "access-revoked"
    [] OTHER -> "none"

\* C13: every createAccount with role patient, addReport, addDoctorUpdate,
\* grantAccess and revokeAccess that has returned without error has added
\* exactly one block, to the chain of the patient it is about, with
\* payloadType genesis, report, update, access-granted and access-revoked
\* respectively.
C13_OneBlockPerEvent ==
  \A s \in Slots :
    LET c == calls[s]
    IN (/\ c.pc = "done" /\ c.res = "ok"
        /\ c.op # "idle"
        /\ c.op = "createAccount" => c.role = "patient") =>
         /\ Cardinality(blocks) = c.nBlk0 + 1
         /\ \E b \in Chain(c.patientId) :
              /\ b.payloadType = BlockTypeOf(c)
              /\ \A x \in blocks : x.id <= b.id
         /\ c.op = "createAccount" =>
              \E u \in users : u.id = c.patientId /\ u.email = c.email

\* A patient signed up, added a report, granted a doctor and revoked again:
\* the chain holds a block of each of the four kinds.
C13_Witness ==
  LET c == calls[1]
  IN /\ c.op = "revokeAccess" /\ c.pc = "done" /\ c.res = "ok"
     /\ {b.payloadType : b \in Chain(c.patientId)}
          = {"genesis", "report", "access-granted", "access-revoked"}

\* C14: once createAccount with role patient has returned for a new email,
\* and before any further call, the new user's chain is exactly one block,
\* with index 0, payloadType genesis, prevHash GENESIS and authorId the new
\* user's id, and getPatientHistory of that user is empty.
C14_FreshPatientChain ==
  \A s \in Slots :
    LET c == calls[s]
    IN (/\ c.op = "createAccount" /\ c.pc = "done" /\ c.res = "ok"
        /\ c.role = "patient") =>
         /\ \E u \in users :
              u.id = c.patientId /\ u.email = c.email /\ u.role = "patient"
         /\ Cardinality(Chain(c.patientId)) = 1
         /\ \A b \in Chain(c.patientId) :
              /\ b.index = 0 /\ b.payloadType = "genesis"
              /\ b.prevHash = GENESIS /\ b.authorId = c.patientId
         /\ getPatientHistory(c.patientId) = {}

\* A second patient signed up after the first had stored a report.
C14_Witness ==
  LET c == calls[1]
  IN /\ c.op = "createAccount" /\ c.pc = "done" /\ c.res = "ok"
     /\ c.role = "patient"
     /\ records # {}
     /\ Chain(c.patientId) # {}

\* What verifyChain returned for vin, and whether the first block of vin is
\* no genesis block.
Failures == vout[1].failures
BadFirst ==
  /\ Len(vin) > 0
  /\ vin[1].payloadType # "genesis" \/ vin[1].prevHash # GENESIS
HasReason(e, reason) == e.reason = reason

\* C15 as stated: verifyChain reports a failure with reason 'Invalid
\* genesis' and index 0 exactly when the first block of the input sequence
\* has a payloadType other than genesis or a prevHash other than GENESIS.
C15_InvalidGenesisAtZero ==
  vout # <<>> =>
    ((\E k \in 1..Len(Failures) :
        Failures[k] = [index |-> 0, reason |-> "Invalid genesis"])
     <=> BadFirst)

\* C15 amended: verifyChain reports a failure with reason 'Invalid genesis'
\* exactly when the first block of the input sequence has a payloadType
\* other than genesis or a prevHash other than GENESIS; it is the first
\* failure, the only one with that reason, and the index it carries is the
\* index field of that first block.
C15_InvalidGenesisAtFirst ==
  vout # <<>> =>
    /\ (\E k \in 1..Len(Failures) : HasReason(Failures[k], "Invalid genesis"))
         <=> BadFirst
    /\ BadFirst =>
         Failures[1] = [index |-> vin[1].index, reason |-> "Invalid genesis"]
    /\ \A k \in 2..Len(Failures) : ~HasReason(Failures[k], "Invalid genesis")

\* A sequence that starts with a block of index 1 that is no genesis block:
\* the failure carries index 1.
C15_Witness ==
  /\ vout # <<>>
  /\ BadFirst
  /\ vin[1].index = 1
  /\ Failures[1] = [index |-> 1, reason |-> "Invalid genesis"]

\* The positions after the first whose block does not carry the hash of the
\* block before it, and the k-th of them in ascending order.
Mismatches == {i \in 2..Len(vin) : vin[i].prevHash # vin[i - 1].hash}
KthMismatch(k) ==
  CHOOSE i \in Mismatches : Cardinality({j \in Mismatches : j < i}) = k - 1
IsPrevHashMismatch(e) == HasReason(e, "Prev hash mismatch")

\* C16: the failures with reason 'Prev hash mismatch' are, in ascending
\* position order, one for every position i > 0 with
\* blocks[i].prevHash # blocks[i-1].hash, each carrying the index of the
\* block at its position; positions whose prevHash matches are not reported.
C16_EveryMismatchReported ==
  vout # <<>> =>
    LET pm == SelectSeq(Failures, IsPrevHashMismatch)
    IN /\ Len(pm) = Cardinality(Mismatches)
       /\ \A k \in 1..Len(pm) : pm[k].index = vin[KthMismatch(k)].index
       /\ \A k \in 2..Len(Failures) : IsPrevHashMismatch(Failures[k])

\* Two breaks of the linkage in one sequence, both reported.
C16_Witness ==
  /\ vout # <<>>
  /\ Mismatches = {2, 3}
  /\ vin[2].index # vin[3].index
  /\ Len(SelectSeq(Failures, IsPrevHashMismatch)) = 2

\* C17: verifyChain returns a result for every block sequence, the empty
\* one and those with repeated or out-of-order blocks included: a record
\* of ok and failures, where ok is TRUE exactly when failures is empty.
C17_VerifyAlwaysReturns ==
  /\ vout = <<>> => ENABLED Verify
  /\ vout # <<>> =>
       /\ DOMAIN vout[1] = {"ok", "failures"}
       /\ vout[1].ok \in BOOLEAN
       /\ vout[1].ok <=> Failures = <<>>
       /\ \A k \in 1..Len(Failures) :
            Failures[k].reason \in {"Invalid genesis", "Prev hash mismatch"}

\* A sequence with a block twice and the indices out of order got its
\* result, with ok = FALSE.
C17_Witness ==
  /\ vout # <<>>
  /\ Len(vin) = 3
  /\ vin[1] = vin[2]
  /\ vin[3].index < vin[2].index
  /\ ~vout[1].ok

\* C18: a revokeAccess(P, D) made while no edge (P, D) is stored returns
\* without error, leaves the permission store as it was and appends one
\* access-revoked block to P's chain; made while an edge is stored, it
\* leaves no edge (P, D) in the store.
C18_RevokeWithoutEdge ==
  \A s \in Slots :
    LET c == calls[s]
    IN c.op = "revokeAccess" =>
         /\ Edges(c.patientId, c.doctorId) = {}
         /\ Cardinality(permissions) = c.nPerm0 - c.nEdge0
         /\ c.pc = "done" =>
              /\ c.res = "ok"
              /\ Cardinality(blocks) = c.nBlk0 + 1
              /\ \E b \in Chain(c.patientId) :
                   /\ b.payloadType = "access-revoked"
                   /\ b.payloadRef = <<"pair", c.patientId, c.doctorId>>
                   /\ \A x \in blocks : x.id <= b.id

\* A revoke of a pair that never had an edge, with another pair's edge in
\* the store, has returned and its block is in the chain.
C18_Witness ==
  LET c == calls[1]
  IN /\ c.op = "revokeAccess" /\ c.pc = "done" /\ c.res = "ok"
     /\ c.nEdge0 = 0 /\ c.pl0 = "none"
     /\ permissions # {}
     /\ \E b \in Chain(c.patientId) : b.payloadType = "access-revoked"

\* The email of a createAccount call was stored when the call was made:
\* users are never removed and the k-th user stored carries id k.
StoredAtCall(c) == \E u \in users : u.email = c.email /\ u.id <= c.nUser0

\* C19: no two stored users have the same email, also when createAccount
\* calls overlap; a createAccount whose email is stored when it is made
\* fails with the email-already-registered error, and the step that fails
\* leaves the user store, the chains and the session as they were.
C19_EmailsUnique ==
  /\ [](\A u, v \in users : u.email = v.email => u = v)
  /\ [](\A s \in Slots :
          (calls[s].op = "createAccount" /\ StoredAtCall(calls[s])) =>
            calls[s].pc = "done" /\ calls[s].res = ErrEmail)
  /\ [][\A s \in Slots :
          (calls'[s] # calls[s] /\ calls'[s].res = ErrEmail) =>
            users' = users /\ blocks' = blocks /\ session' = session]_vars

\* C20: a block that is in the store stays in it, with every field as it
\* was written, in every later state: no step removes or replaces a block,
\* so a chain only grows and a chain that has a block never becomes empty.
C20_BlocksStay ==
  [][/\ blocks \subseteq blocks'
     /\ \A patientId \in AllIds :
          Chain(patientId) # {} =>
            {b \in blocks' : b.patientId = patientId} # {}]_vars

\* A chain of three blocks next to a second chain: the earlier blocks have
\* been through the later appends.
C20_Witness ==
  /\ \E patientId \in StoredPatients : Cardinality(Chain(patientId)) >= 3
  /\ Cardinality({b.patientId : b \in blocks}) >= 2

\* C21: in every state, those between the steps of an addReport or
\* addDoctorUpdate in progress included, every report or update block's
\* payloadRef is the id of a stored record of the same patient and type,
\* and every stored record with a fileId refers to a stored blob.
C21_FileThenRecordThenBlock ==
  /\ \A b \in blocks :
       b.payloadType \in {"report", "update"} =>
         \E r \in records :
           /\ b.payloadRef = <<"rec", r.id, 0>>
           /\ r.patientId = b.patientId
           /\ r.type = b.payloadType
  /\ \A r \in records : r.fileId # None => r.fileId \in files

\* A report with a file is stored and its block is in the chain.
C21_Witness ==
  \E b \in blocks, r \in records :
    /\ b.payloadType = "report" /\ b.payloadRef = <<"rec", r.id, 0>>
    /\ r.fileId \in files

\* C22: the stored hash of every block is the digest of its stored
\* prevHash, the digest of payloadType:payloadRef, and its stored timestamp,
\* authorId and index, in that order.
C22_HashFromStoredFields ==
  \A b \in blocks :
    b.hash = sha256HexFromString(
               <<b.prevHash,
                 sha256HexFromString(<<b.payloadType, b.payloadRef>>),
                 b.timestamp, b.authorId, b.index>>)

\* A chain with a genesis block, whose payloadRef is absent, and a later
\* block that carries one.
C22_Witness ==
  \E b, g \in blocks :
    /\ g.patientId = b.patientId
    /\ g.index = 0 /\ g.payloadRef = NoRef
    /\ b.index > 0 /\ b.payloadRef # NoRef /\ b.prevHash = g.hash

\* The newest block of the store: the one written last.
Newest == {b \in blocks : \A x \in blocks : x.id <= b.id}

\* C23: the block an operation has appended carries as authorId the id of
\* the session user who called the operation; for createAccount that is the
\* user the call has just signed up and logged in.
C23_AuthorIsSessionUser ==
  \A s \in Slots :
    LET c == calls[s]
        caller == IF c.op = "createAccount" THEN c.patientId ELSE c.sess0
    IN (/\ c.op # "idle" /\ c.pc = "done" /\ c.res = "ok"
        /\ c.op = "createAccount" => c.role = "patient") =>
         \A b \in Newest : b.authorId = caller

\* The blocks of a record's patient that refer to the record, with the
\* record's type as payloadType.
BlocksOf(r) ==
  {b \in Chain(r.patientId) :
     b.payloadType = r.type /\ b.payloadRef = <<"rec", r.id, 0>>}

\* C24: whenever no operation is in progress, the last one having returned
\* or failed with a storage error, every stored record is referred to by
\* exactly one block of its patient's chain, of the record's type.
C24_EveryRecordHasItsBlock ==
  Quiet => \A r \in records : Cardinality(BlocksOf(r)) = 1

\* C25: getCurrentUser returns null exactly when no session id is stored,
\* and a user it returns carries the stored session id.
C25_CurrentUserIsSession ==
  /\ getCurrentUser = None <=> session = None
  /\ getCurrentUser # None => getCurrentUser = session

\* The user whose credentials a login call presented, if any.
Matching(c) ==
  {u \in users : /\ u.email = c.email
                 /\ hashPassword(c.password, u.saltHex) = u.passwordHashHex}

\* C26: a login step returns false and leaves the session id as it was
\* when no user has the email or the digest of the password under the
\* user's salt differs from the stored one; it returns true, with the
\* session id set to the user's id, only when the digests are equal.
C26_LoginChecksDigest ==
  [][\A s \in Slots :
       (calls'[s] # calls[s] /\ calls'[s].op = "login") =>
         IF Matching(calls'[s]) = {}
         THEN calls'[s].res = "false" /\ session' = session
         ELSE /\ calls'[s].res = "true"
              /\ \E u \in Matching(calls'[s]) : session' = u.id]_vars

\* A login with a stored email and the wrong password has returned false
\* while another user stays logged in.
C26_Witness ==
  LET c == calls[1]
  IN /\ c.op = "login" /\ c.pc = "done" /\ c.res = "false"
     /\ getUserByEmail(c.email) # {}
     /\ session # None /\ session = c.sess0
     /\ \A u \in getUserByEmail(c.email) : u.id # session

\* C27: an operation whose authorId is no stored user's id still returns
\* with its block written, and that block's authorName is "Unknown"; a
\* block whose authorId is a stored user's id carries that user's name.
C27_UnknownAuthorName ==
  /\ \A b \in blocks :
       IF getUserById(b.authorId) = {}
       THEN b.authorName = "Unknown"
       ELSE \A u \in getUserById(b.authorId) : b.authorName = u.name
  /\ \A s \in Slots :
       LET c == calls[s]
       IN (/\ c.op \in {"grantAccess", "revokeAccess"}
           /\ c.pc = "done" /\ getUserById(c.patientId) = {}) =>
            /\ c.res = "ok"
            /\ \E b \in Newest : /\ b.patientId = c.patientId
                                 /\ b.authorId = c.patientId
                                 /\ b.authorName = "Unknown"

\* A block of an author who is not stored next to blocks of two stored
\* users with different names.
C27_Witness ==
  /\ \E b \in blocks : getUserById(b.authorId) = {} /\ b.authorName = "Unknown"
  /\ {"Ann", "Bob"} \subseteq {b.authorName : b \in blocks}

\* C28: the step of appendBlock that writes adds exactly one block, with
\* the patientId appendBlock was called for, and leaves every other block,
\* the users, the permissions and the records as they were; the step that
\* reads changes no store.
C28_AppendWritesOneBlock ==
  [][\A s \in Slots :
       /\ (calls[s].pc = "abPut" /\ calls'[s].res = "ok") =>
            /\ blocks \subseteq blocks'
            /\ Cardinality(blocks' \ blocks) = 1
            /\ \A b \in blocks' \ blocks : b.patientId = calls[s].patientId
            /\ users' = users /\ permissions' = permissions
            /\ records' = records
       /\ (calls[s].pc = "abRead" /\ calls'[s].pc = "abPut") =>
            /\ blocks' = blocks /\ users' = users
            /\ permissions' = permissions /\ records' = records]_vars

\* A doctor's update block sits in the patient's chain while a second
\* chain exists.
C28_Witness ==
  /\ \E b \in blocks : b.payloadType = "update" /\ b.authorId # b.patientId
  /\ Cardinality({b.patientId : b \in blocks}) >= 2


\* C29: connectWallet invokes onSuccess(address) only after a signature was
\* obtained whose recovered address equals the connected address ignoring
\* case; a run that ends on a mismatch, a declined signature or a timeout
\* (the error state is set) invokes nothing.
C29_OnSuccessOnlyAfterVerifiedSignature ==
  [][/\ wallet'.called # wallet.called =>
          /\ wallet.pc = "sign" /\ wallet.timer # "fired"
          /\ wallet'.signature # NoSig
          /\ wallet'.signerAddr =
               verifyMessage(wallet.message, wallet'.signature)
          /\ toLowerCase(wallet'.signerAddr) = toLowerCase(wallet.address)
          /\ wallet'.called = Append(wallet.called, wallet.address)
     /\ (wallet.pc # "done" /\ wallet'.pc = "done"
           /\ wallet'.toast = "Connection failed") =>
          wallet'.called = wallet.called]_vars
\* onSuccess was invoked for an address that the recovered one matches only
\* when case is ignored.
C29_Witness ==
  /\ wallet.pc = "done"
  /\ wallet.called = <<wallet.address>>
  /\ wallet.signerAddr # wallet.address
  /\ toLowerCase(wallet.signerAddr) = toLowerCase(wallet.address)

\* C30: every connectWallet run ends with loading reset to false, whatever
\* the requests do, the 30-second timer being assumed to fire: while loading
\* is true some step of the run can still be taken.
C30_LoadingIsReset ==
  wallet.loading => ENABLED NextWallet

====
